---- MODULE Spec2Model ----
(***************************************************************************)
(* A model of the bitcoin-rpc client (class RPCClient).                    *)
(*                                                                         *)
(* The repository holds two builds of the client file: one that sends with *)
(* undici's request() (src/unnamed/part_000) and one that sends with       *)
(* undici's fetch() (src/unnamed/part_001).  They share the constructor,   *)
(* the envelope predicates and the request construction, and differ in how *)
(* a non-success HTTP status is handled.  The variable `variant` says      *)
(* which build runs.                                                       *)
(*                                                                         *)
(* JavaScript values are tagged records, one field name per type:          *)
(*   [type |-> "undefined"], [type |-> "null"],                            *)
(*   [type |-> "string", chars |-> <<"a", "b">>]  (a sequence of           *)
(*       one-character strings, so that split, trim and template literals  *)
(*       are computed character by character),                             *)
(*   [type |-> "number", num |-> 7], [type |-> "boolean", bool |-> TRUE],  *)
(*   [type |-> "array", items |-> <<...>>],                                *)
(*   [type |-> "function", fname |-> <<"f">>],                             *)
(*   [type |-> "object", jsonrpc |-> .., id |-> .., ...] with Absent for a   *)
(*       key the object does not have.                                     *)
(***************************************************************************)
EXTENDS Integers, Sequences, FiniteSets, TLC

VARIABLES
    options,   \* the RPCOptions handed to the constructor
    fs,        \* what readFileSync(cookie, "utf8") finds at the cookie path
    pc,        \* "new" (before construction), "ready" (a client exists), "failed" (the constructor threw)
    client,    \* the RPCClient's private readonly fields, or NoClient
    thrown,    \* the error the constructor threw, or NoError
    variant,   \* "request" (part_000) or "fetch" (part_001)
    now,       \* Date.now()
    calls      \* per caller: where its makeRequest / batch call stands

vars == <<options, fs, pc, client, thrown, variant, now, calls>>

----------------------------------------------------------------------------
(* Bounds *)

\* Longest cookie file text, in characters.
MaxCookieLen == 4
\* Date.now() when the first call is made, and the last value the clock reaches.
StartTime == 9
MaxTime == 10
\* Most requests in one batch call.
MaxBatch == 2
\* Most elements in an array the server answers with.
MaxItems == 2

----------------------------------------------------------------------------
(* JavaScript values *)

Undefined == [type |-> "undefined"]
Null == [type |-> "null"]
Absent == [type |-> "absent"]
Str(s) == [type |-> "string", chars |-> s]
Num(n) == [type |-> "number", num |-> n]
Bool(b) == [type |-> "boolean", bool |-> b]
Arr(xs) == [type |-> "array", items |-> xs]
Fun(n) == [type |-> "function", fname |-> n]

\* ToBoolean: what `!x`, `x || y` and `x && y` test.
Truthy(v) ==
    CASE v.type = "undefined" -> FALSE
      [] v.type = "null" -> FALSE
      [] v.type = "string" -> v.chars # <<>>
      [] v.type = "number" -> v.num # 0
      [] v.type = "boolean" -> v.bool
      [] OTHER -> TRUE

\* a || b
OrElse(a, b) == IF Truthy(a) THEN a ELSE b

\* The names of string literals the program uses, spelled out.
S_mainnet == <<"m", "a", "i", "n", "n", "e", "t">>
S_regtest == <<"r", "e", "g", "t", "e", "s", "t">>
S_signet == <<"s", "i", "g", "n", "e", "t">>
S_testnet == <<"t", "e", "s", "t", "n", "e", "t">>
S_constructor == <<"c", "o", "n", "s", "t", "r", "u", "c", "t", "o", "r">>
S_toString == <<"t", "o", "S", "t", "r", "i", "n", "g">>
S_bogus == <<"b", "o", "g", "u", "s">>
S_loopback == <<"1", "2", "7", ".", "0", ".", "0", ".", "1">>
S_http == <<"h", "t", "t", "p">>
S_https == <<"h", "t", "t", "p", "s">>
S_2_0 == <<"2", ".", "0">>

\* A function's outcome: a value returned or an error thrown.
NoError == [type |-> "noerror"]
Return(v) == [threw |-> FALSE, value |-> v, error |-> NoError]
Throw(e) == [threw |-> TRUE, value |-> Undefined, error |-> e]

\* new Error(`<what>${arg}`): the message's fixed text and the value spliced in.
Error(what, arg) == [type |-> "error", what |-> what, arg |-> arg]
\* An error of node:fs, which carries a code.
FsError(code) == [type |-> "fserror", code |-> code]

----------------------------------------------------------------------------
(* The networks table *)

NetworkNames == {S_mainnet, S_regtest, S_signet, S_testnet}

networks ==
    [n \in NetworkNames |->
        CASE n = S_mainnet -> 8332
          [] n = S_regtest -> 18332
          [] n = S_signet -> 38332
          [] n = S_testnet -> 18332]

\* Property names every object literal inherits from Object.prototype (some of them).
ObjectPrototypeKeys == {S_constructor, S_toString}

\* networks[name]: the own property, else the inherited one, else undefined.
NetworksLookup(name) ==
    IF name \in NetworkNames THEN Num(networks[name])
    ELSE IF name \in ObjectPrototypeKeys THEN Fun(name)
    ELSE Undefined

----------------------------------------------------------------------------
(* String operations *)

WhiteSpace == {" ", "\t", "\n", "\r"}

RECURSIVE TrimStart(_)
TrimStart(s) ==
    IF s # <<>> /\ Head(s) \in WhiteSpace THEN TrimStart(Tail(s)) ELSE s

RECURSIVE TrimEnd(_)
TrimEnd(s) ==
    IF s # <<>> /\ s[Len(s)] \in WhiteSpace
    THEN TrimEnd(SubSeq(s, 1, Len(s) - 1))
    ELSE s

\* String.prototype.trim
Trim(s) == TrimEnd(TrimStart(s))

\* String.prototype.split(sep) for a one-character separator: every field
\* between separators, so a text with k separators gives k + 1 fields.
RECURSIVE Split(_, _)
Split(s, sep) ==
    IF \A i \in 1..Len(s) : s[i] # sep
    THEN <<s>>
    ELSE LET i == CHOOSE j \in 1..Len(s) :
                      s[j] = sep /\ \A k \in 1..(j - 1) : s[k] # sep
         IN  <<SubSeq(s, 1, i - 1)>> \o Split(SubSeq(s, i + 1, Len(s)), sep)

----------------------------------------------------------------------------
(* The constructor *)

\* readFileSync's outcomes: the text, or an error with a code.
FileOk(text) == [status |-> "ok", text |-> text]
FileErr(code) == [status |-> code, text |-> <<>>]

\* handleCookie with the trim of the two fields left out.
handleCookieNoTrim(cookie, file) ==
    IF file.status # "ok"
    THEN CASE file.status = "ENOENT" -> Throw(Error("File not found: ", cookie))
           [] file.status = "EACCES" -> Throw(Error("Permission denied: ", cookie))
           [] OTHER -> Throw(FsError(file.status))
    ELSE LET tokens == Split(file.text, ":")
         IN  IF Len(tokens) # 2
             THEN Throw(Error("Cookie file is invalid", Str(<<>>)))
             ELSE Return(Arr(<<Str(tokens[1]), Str(tokens[2])>>))

\* handleCookie: the error thrown in the try block (the file error, or "Cookie
\* file is invalid", which has no code) goes through the catch block's switch.
handleCookie(cookie, file) ==
    IF file.status # "ok"
    THEN CASE file.status = "ENOENT" -> Throw(Error("File not found: ", cookie))
           [] file.status = "EACCES" -> Throw(Error("Permission denied: ", cookie))
           [] OTHER -> Throw(FsError(file.status))
    ELSE LET tokens == Split(file.text, ":")
         IN  IF Len(tokens) # 2
             THEN Throw(Error("Cookie file is invalid", Str(<<>>)))
             ELSE Return(Arr(<<Str(Trim(tokens[1])), Str(Trim(tokens[2]))>>))

\* validateNetwork
validateNetwork(network) ==
    IF Truthy(network) /\ ~Truthy(NetworksLookup(network.chars))
    THEN Throw(Error("Invalid network name ", network))
    ELSE Return(Undefined)

AuthError ==
    Error("Unathenticated RPC communication is not supported. Provide valid username and password",
          Str(<<>>))

\* getCredentials with the explicit pair taking precedence over the cookie.
getCredentialsExplicitFirst(o, file) ==
    LET useCookie == Truthy(o.cookie) /\ ~(Truthy(o.username) /\ Truthy(o.password))
        cookie == IF useCookie THEN handleCookie(o.cookie, file) ELSE Return(Undefined)
    IN  IF cookie.threw THEN cookie
        ELSE LET username == IF useCookie THEN cookie.value.items[1] ELSE o.username
                 password == IF useCookie THEN cookie.value.items[2] ELSE o.password
             IN  IF ~Truthy(username) \/ ~Truthy(password)
                 THEN Throw(AuthError)
                 ELSE Return([username |-> username, password |-> password])

\* getCredentials with the check of the password left out.
getCredentialsUserOnly(o, file) ==
    LET cookie == IF Truthy(o.cookie) THEN handleCookie(o.cookie, file) ELSE Return(Undefined)
    IN  IF cookie.threw THEN cookie
        ELSE LET username == IF Truthy(o.cookie) THEN cookie.value.items[1] ELSE o.username
                 password == IF Truthy(o.cookie) THEN cookie.value.items[2] ELSE o.password
             IN  IF ~Truthy(username)
                 THEN Throw(AuthError)
                 ELSE Return([username |-> username, password |-> password])

\* getCredentials
getCredentials(o, file) ==
    LET cookie == IF Truthy(o.cookie) THEN handleCookie(o.cookie, file) ELSE Return(Undefined)
    IN  IF cookie.threw THEN cookie
        ELSE LET username == IF Truthy(o.cookie) THEN cookie.value.items[1] ELSE o.username
                 password == IF Truthy(o.cookie) THEN cookie.value.items[2] ELSE o.password
             IN  IF ~Truthy(username) \/ ~Truthy(password)
                 THEN Throw(AuthError)
                 ELSE Return([username |-> username, password |-> password])

\* getDefaults
getDefaults(o) ==
    [host |-> OrElse(o.host, Str(S_loopback)),
     port |-> OrElse(o.port, NetworksLookup(OrElse(o.network, Str(S_mainnet)).chars)),
     protocol |-> OrElse(o.protocol, Str(S_http)),
     timeout |-> OrElse(o.timeout, Num(30000))]

NoClient == [type |-> "noclient"]

\* new RPCClient(options): the client's fields, or the error thrown.
NewRPCClient(o, file) ==
    LET valid == validateNetwork(o.network)
        credentials == getCredentials(o, file)
        defaults == getDefaults(o)
    IN  IF valid.threw THEN valid
        ELSE IF credentials.threw THEN credentials
        ELSE Return([username |-> credentials.value.username,
                     password |-> credentials.value.password,
                     host |-> defaults.host,
                     port |-> defaults.port,
                     protocol |-> defaults.protocol,
                     timeout |-> defaults.timeout])

\* The constructor runs: a client exists afterwards, or the error is thrown.
Construct ==
    /\ pc = "new"
    /\ LET r == NewRPCClient(options, fs)
       IN  /\ pc' = IF r.threw THEN "failed" ELSE "ready"
           /\ client' = IF r.threw THEN NoClient ELSE r.value
           /\ thrown' = r.error
    /\ UNCHANGED <<options, fs, variant, now, calls>>

----------------------------------------------------------------------------
(* JSON documents *)

S_getblockcount == <<"g", "e", "t", "b", "l", "o", "c", "k", "c", "o", "u", "n", "t">>
S_getblocktemplate ==
    <<"g", "e", "t", "b", "l", "o", "c", "k", "t", "e", "m", "p", "l", "a", "t", "e">>
S_1_0 == <<"1", ".", "0">>
S_appjson ==
    <<"a", "p", "p", "l", "i", "c", "a", "t", "i", "o", "n", "/", "j", "s", "o", "n">>
S_textplain == <<"t", "e", "x", "t", "/", "p", "l", "a", "i", "n">>
S_InvalidCredentials ==
    <<"I", "n", "v", "a", "l", "i", "d", " ", "c", "r", "e", "d", "e", "n", "t", "i", "a", "l", "s">>
S_Forbidden == <<"F", "o", "r", "b", "i", "d", "d", "e", "n">>

\* An object over the keys the program reads or writes; Absent: no such key.
EmptyObject ==
    [type |-> "object", jsonrpc |-> Absent, id |-> Absent, method |-> Absent,
     params |-> Absent, result |-> Absent, error |-> Absent, code |-> Absent,
     message |-> Absent]

\* "key" in obj, for an object; obj.key, which is undefined for a missing key.
Has(v) == v # Absent
Get(v) == IF v = Absent THEN Undefined ELSE v

\* A text that is the JSON serialisation of `data`: JSON.stringify(data), and
\* what JSON.parse turns back into `data`.  Never the empty string.
JsonText(data) == [type |-> "jsontext", data |-> data]

SyntaxError == [type |-> "syntaxerror"]
TypeError == [type |-> "typeerror"]

\* JSON.parse(text): the document, or a SyntaxError for a text that is not JSON.
JSONparse(text) ==
    IF text.type = "jsontext" THEN Return(text.data) ELSE Throw(SyntaxError)

\* `${n}` for a number n >= 0: its decimal digits.
Digit(d) ==
    CASE d = 0 -> "0" [] d = 1 -> "1" [] d = 2 -> "2" [] d = 3 -> "3" [] d = 4 -> "4"
      [] d = 5 -> "5" [] d = 6 -> "6" [] d = 7 -> "7" [] d = 8 -> "8" [] d = 9 -> "9"

RECURSIVE Digits(_)
Digits(n) == IF n < 10 THEN <<Digit(n)>> ELSE Digits(n \div 10) \o <<Digit(n % 10)>>

----------------------------------------------------------------------------
(* Envelope predicates *)

\* isRPCResponse with the test for the error key left out.
isRPCResponseNoErrorKey(payload) ==
    /\ payload.type = "object"
    /\ Has(payload.id)
    /\ Has(payload.result)

\* isRPCResponse: typeof payload === "object" holds of objects and arrays (and
\* of null, excluded next); an array has none of the keys.
isRPCResponse(payload) ==
    /\ payload.type \in {"object", "array"}
    /\ payload.type = "object"
    /\ Has(payload.id)
    /\ Has(payload.result)
    /\ Has(payload.error)

\* isRPC2Response
isRPC2Response(payload) ==
    /\ payload.type \in {"object", "array"}
    /\ payload.type = "object"
    /\ Has(payload.jsonrpc)
    /\ payload.jsonrpc = Str(S_2_0)

----------------------------------------------------------------------------
(* Sending *)

\* createRequest: the POST handed to undici.  The URL is kept as its three
\* parts and the Basic credentials as the pair that is base64-encoded.
createRequest(reqBody, callOptions) ==
    [url |-> Arr(<<client.protocol, client.host, client.port>>),
     authorization |-> Arr(<<client.username, client.password>>),
     body |-> JsonText(reqBody),
     bodyTimeout |-> OrElse(callOptions.timeout, client.timeout)]

\* makeRequest's reqBody: id is `${Date.now()}${suffix == null ? "" : `-${suffix}`}`.
makeRequestBody(method, params, suffix, time) ==
    [EmptyObject EXCEPT
        !.jsonrpc = Str(S_2_0),
        !.id = Str(Digits(time) \o
                   (IF suffix \in {Undefined, Null} THEN <<>> ELSE <<"-">> \o suffix.chars)),
        !.method = method,
        !.params = params]

\* One element of batch's reqBody: id = id || `${now}-${index}`, index from 0.
batchItem(item, index, time) ==
    [EmptyObject EXCEPT
        !.jsonrpc = Str(S_2_0),
        !.id = OrElse(Get(item.id), Str(Digits(time) \o <<"-">> \o Digits(index))),
        !.method = Get(item.method),
        !.params = Get(item.params)]

\* batch's reqBody: rpcRequests.map(...)
batchBody(rpcRequests, time) ==
    Arr([i \in 1..Len(rpcRequests.items) |-> batchItem(rpcRequests.items[i], i - 1, time)])

----------------------------------------------------------------------------
(* Receiving *)

InvalidCredentials == Error("", Str(S_InvalidCredentials))
InvalidStatus(status) == Error("Received invalid status code: ", Num(status))
InvalidResponse(data) == Error("Received invalid RPC response: ", JsonText(data))
\* new Error(`Code: ${code}, ${message}`)
ProtocolError(code, message) == Error("Code: , ", Arr(<<code, message>>))
\* new Error(value): the message is the value as a string.
NewError(value) == Error("", value)

\* value.error, value.code, value.message: a TypeError on null, the key's value
\* on an object, undefined on anything else.
ErrorOf(v) == IF v.type = "object" THEN Get(v.error) ELSE Undefined
CodeOf(v) == IF v.type = "object" THEN Get(v.code) ELSE Undefined
MessageOf(v) == IF v.type = "object" THEN Get(v.message) ELSE Undefined

\* part_000, a status other than 200: 401 is "Invalid credentials"; any other
\* throws the body's error field, or the body, parsed when the content type
\* is application/json.
requestFailure(resp) ==
    IF resp.status = 401 THEN Throw(InvalidCredentials)
    ELSE LET response == IF resp.contentType = Str(S_appjson)
                         THEN JSONparse(resp.body)
                         ELSE Return(resp.body)
         IN  IF response.threw THEN response
             ELSE IF response.value.type = "null" THEN Throw(TypeError)
             ELSE Throw(NewError(OrElse(ErrorOf(response.value), response.value)))

\* From the response to the parsed data, or the error thrown on the way.
\* part_000: statusCode !== 200 fails; part_001: !response.ok fails, with one
\* error for every status outside 200..299.
readResponse(build, resp) ==
    IF build = "request"
    THEN IF resp.status # 200 THEN requestFailure(resp) ELSE JSONparse(resp.body)
    ELSE IF resp.status \notin 200..299
         THEN Throw(InvalidStatus(resp.status))
         ELSE JSONparse(resp.body)

\* The 2.0 branch of makeRequest with the test for an error left out.
rpc2OutcomeNoErrorTest(data) == Return(Get(data.result))

\* The 2.0 branch of makeRequest.
rpc2Outcome(data) ==
    IF Has(data.error)
    THEN IF data.error.type = "null"
         THEN Throw(TypeError)
         ELSE Throw(ProtocolError(CodeOf(data.error), MessageOf(data.error)))
    ELSE Return(Get(data.result))

\* The legacy branch of makeRequest returning the envelope instead of its result.
legacyOutcomeWhole(data) ==
    IF data.error # Null
    THEN Throw(ProtocolError(CodeOf(data.error), MessageOf(data.error)))
    ELSE Return(data)

\* The legacy branch of makeRequest.
legacyOutcome(data) ==
    IF data.error # Null
    THEN Throw(ProtocolError(CodeOf(data.error), MessageOf(data.error)))
    ELSE Return(data.result)

\* makeRequest after JSON.parse: the 2.0 branch, the legacy branch, or the
\* invalid-response error.
makeRequestDecode(data) ==
    IF isRPC2Response(data) THEN rpc2Outcome(data)
    ELSE IF isRPCResponse(data) THEN legacyOutcome(data)
    ELSE Throw(InvalidResponse(data))

\* batch's acceptance with some() in place of every().
batchAcceptsSome(data) ==
    /\ data.type = "array"
    /\ \/ \E i \in 1..Len(data.items) : isRPC2Response(data.items[i])
       \/ \E i \in 1..Len(data.items) : isRPCResponse(data.items[i])

\* batch's acceptance: an array whose elements all pass isRPC2Response, or all
\* pass isRPCResponse.
batchAccepts(data) ==
    /\ data.type = "array"
    /\ \/ \A i \in 1..Len(data.items) : isRPC2Response(data.items[i])
       \/ \A i \in 1..Len(data.items) : isRPCResponse(data.items[i])

\* batch after JSON.parse.
batchDecode(data) ==
    IF batchAccepts(data) THEN Return(data) ELSE Throw(InvalidResponse(data))

\* makeRequest and batch from the response on.
makeRequestReceive(build, resp) ==
    LET data == readResponse(build, resp)
    IN  IF data.threw THEN data ELSE makeRequestDecode(data.value)

batchReceive(build, resp) ==
    LET data == readResponse(build, resp)
    IN  IF data.threw THEN data ELSE batchDecode(data.value)

----------------------------------------------------------------------------
(* The calls *)

Callers == {1}

NoRequest == [type |-> "norequest"]
NoResponse == [type |-> "noresponse"]
NoOutcome == [type |-> "nooutcome"]

Idle ==
    [pc |-> "idle", kind |-> "none", args |-> Undefined, request |-> NoRequest,
     response |-> NoResponse, outcome |-> NoOutcome]

\* undici's rejection: no response (unreachable host, timeout, abort).
TransportError == [type |-> "transporterror"]

\* A facade method calls makeRequest, which builds the envelope and awaits
\* createRequest.  No facade method passes a suffix.
MakeRequestSend(c, method, params, suffix, callOptions) ==
    /\ pc = "ready"
    /\ calls[c].pc = "idle"
    /\ calls' = [calls EXCEPT ![c] =
            [pc |-> "awaiting", kind |-> "single",
             args |-> [EmptyObject EXCEPT !.method = method, !.params = params],
             request |-> createRequest(makeRequestBody(method, params, suffix, now), callOptions),
             response |-> NoResponse, outcome |-> NoOutcome]]
    /\ UNCHANGED <<options, fs, pc, client, thrown, variant, now>>

\* The response arrives and makeRequest returns or throws.
MakeRequestReceive(c, resp) ==
    /\ calls[c].pc = "awaiting"
    /\ calls[c].kind = "single"
    /\ calls' = [calls EXCEPT ![c] =
            [pc |-> "done", kind |-> "single", args |-> Undefined, request |-> NoRequest,
             response |-> resp, outcome |-> makeRequestReceive(variant, resp)]]
    /\ UNCHANGED <<options, fs, pc, client, thrown, variant, now>>

\* batch builds the array of envelopes and awaits createRequest.
BatchSend(c, rpcRequests, callOptions) ==
    /\ pc = "ready"
    /\ calls[c].pc = "idle"
    /\ calls' = [calls EXCEPT ![c] =
            [pc |-> "awaiting", kind |-> "batch", args |-> rpcRequests,
             request |-> createRequest(batchBody(rpcRequests, now), callOptions),
             response |-> NoResponse, outcome |-> NoOutcome]]
    /\ UNCHANGED <<options, fs, pc, client, thrown, variant, now>>

\* The response arrives and batch returns or throws.
BatchReceive(c, resp) ==
    /\ calls[c].pc = "awaiting"
    /\ calls[c].kind = "batch"
    /\ calls' = [calls EXCEPT ![c] =
            [pc |-> "done", kind |-> "batch", args |-> Undefined, request |-> NoRequest,
             response |-> resp, outcome |-> batchReceive(variant, resp)]]
    /\ UNCHANGED <<options, fs, pc, client, thrown, variant, now>>

\* The awaited request rejects: the call throws undici's error.
TransportFail(c) ==
    /\ calls[c].pc = "awaiting"
    /\ calls' = [calls EXCEPT ![c] =
            [pc |-> "done", kind |-> calls[c].kind, args |-> Undefined, request |-> NoRequest,
             response |-> NoResponse, outcome |-> Throw(TransportError)]]
    /\ UNCHANGED <<options, fs, pc, client, thrown, variant, now>>

\* Time passes.
Tick ==
    /\ now < MaxTime
    /\ now' = now + 1
    /\ UNCHANGED <<options, fs, pc, client, thrown, variant, calls>>

----------------------------------------------------------------------------
(* The inputs of the calls *)

Variants == {"request", "fetch"}

\* The facade methods modelled: getblockcount() and getblocktemplate(params).
FacadeCalls ==
    {[method |-> Str(S_getblockcount), params |-> Arr(<<>>)],
     [method |-> Str(S_getblocktemplate), params |-> Arr(<<Str(<<"r">>)>>)]}

\* RequestOptions: no timeout, or one.
CallOptions == {[timeout |-> Undefined], [timeout |-> Num(1000)]}

\* The ids a caller of batch gives: none, a number, a string.
BatchIds == {Absent, Num(0), Num(7), Str(<<>>), Str(<<"a">>)}

BatchItems ==
    {[EmptyObject EXCEPT !.method = Str(S_getblockcount), !.params = Arr(<<>>), !.id = i] :
        i \in BatchIds}

BatchRequests == {Arr(q) : q \in UNION {[1..k -> BatchItems] : k \in 0..MaxBatch}}

ErrorObject ==
    [EmptyObject EXCEPT !.code = Num(-8), !.message = Str(<<"b", "a", "d">>)]

\* Result values: null, false, a number, a string, an array, an object.
Results ==
    {Null, Bool(FALSE), Num(800000), Str(<<"0", "0", "a", "b">>), Arr(<<Num(1)>>),
     [EmptyObject EXCEPT !.code = Num(1)]}

\* Objects a server may answer with: every choice of the four envelope keys.
Envelopes ==
    {[EmptyObject EXCEPT !.jsonrpc = j, !.id = i, !.result = r, !.error = e] :
        j \in {Absent, Str(S_2_0), Str(S_1_0)},
        i \in {Absent, Str(<<"x">>)},
        r \in {Absent} \cup Results,
        e \in {Absent, Null, ErrorObject}}

\* Bodies that are not JSON.
RawBodies == {Str(<<>>), Str(S_Forbidden)}

SingleBodies ==
    RawBodies \cup {JsonText(d) : d \in Envelopes \cup Results \cup {Arr(<<>>)}}

\* The elements of an answer to a batch: 2.0 only, legacy only, both shapes,
\* neither, and a 2.0 error.
BatchElements ==
    {[EmptyObject EXCEPT !.jsonrpc = Str(S_2_0), !.id = Str(<<"x">>), !.result = Num(800000)],
     [EmptyObject EXCEPT !.id = Str(<<"x">>), !.result = Num(800000), !.error = Null],
     [EmptyObject EXCEPT !.jsonrpc = Str(S_2_0), !.id = Str(<<"x">>), !.result = Null,
                         !.error = ErrorObject],
     [EmptyObject EXCEPT !.id = Str(<<"x">>), !.result = Num(800000)],
     [EmptyObject EXCEPT !.jsonrpc = Str(S_2_0), !.id = Str(<<"x">>), !.error = ErrorObject],
     Num(1)}

BatchBodies ==
    RawBodies
        \cup {JsonText(Arr(q)) : q \in UNION {[1..k -> BatchElements] : k \in 0..MaxItems}}
        \cup {JsonText(d) : d \in {Null, Num(1)} \cup BatchElements}

Statuses == {200, 401, 500}
ContentTypes == {Undefined, Str(S_appjson), Str(S_textplain)}

Responses(bodies) ==
    {[status |-> s, contentType |-> t, body |-> b] :
        s \in Statuses, t \in ContentTypes, b \in bodies}

\* The configuration of the client the calls are made on.
CallClientOptions ==
    [network |-> Str(S_regtest), host |-> Undefined, port |-> Undefined,
     protocol |-> Undefined, username |-> Str(<<"x">>), password |-> Str(<<"y">>),
     cookie |-> Undefined, timeout |-> Undefined]

\* After construction: a client exists and no call has been made.
Init ==
    /\ options = CallClientOptions
    /\ fs = FileErr("ENOENT")
    /\ pc = "ready"
    /\ client = NewRPCClient(options, fs).value
    /\ thrown = NoError
    /\ variant \in Variants
    /\ now = StartTime
    /\ calls = [c \in Callers |-> Idle]

Next ==
    \/ Tick
    \/ \E c \in Callers, f \in FacadeCalls, o \in CallOptions :
            MakeRequestSend(c, f.method, f.params, Undefined, o)
    \/ \E c \in Callers, r \in Responses(SingleBodies) : MakeRequestReceive(c, r)
    \/ \E c \in Callers, q \in BatchRequests, o \in CallOptions : BatchSend(c, q, o)
    \/ \E c \in Callers, r \in Responses(BatchBodies) : BatchReceive(c, r)
    \/ \E c \in Callers : TransportFail(c)

Spec == Init /\ [][Next]_vars

----------------------------------------------------------------------------
(* The inputs of the constructor *)

CookieAlphabet == {"u", "p", ":", "\n"}

Texts(n) == UNION {[1..k -> CookieAlphabet] : k \in 0..n}

S_cookiePath == <<".", "c", "o", "o", "k", "i", "e">>

FileStates ==
    {FileErr("ENOENT"), FileErr("EACCES"), FileErr("EISDIR")}
        \cup {FileOk(t) : t \in Texts(MaxCookieLen)}

\* The other endpoint fields: all left out, or all given.
EndpointOptions ==
    {[host |-> Undefined, protocol |-> Undefined, timeout |-> Undefined],
     [host |-> Str(<<"n", "o", "d", "e">>), protocol |-> Str(S_https), timeout |-> Num(5000)]}

OptionsSet ==
    {[network |-> n, host |-> e.host, port |-> p, protocol |-> e.protocol,
      username |-> u, password |-> w, cookie |-> c, timeout |-> e.timeout] :
        n \in {Undefined, Str(<<>>), Str(S_mainnet), Str(S_regtest), Str(S_signet),
               Str(S_testnet), Str(S_bogus), Str(S_constructor)},
        p \in {Undefined, Num(0), Num(1234)},
        u \in {Undefined, Str(<<>>), Str(<<"x">>)},
        w \in {Undefined, Str(<<>>), Str(<<"y">>)},
        c \in {Undefined, Str(<<>>), Str(S_cookiePath)},
        e \in EndpointOptions}

\* Before construction.  A file is modelled at the cookie path only when the
\* options name one: without a path the constructor reads no file.
InitCtor ==
    /\ options \in OptionsSet
    /\ fs \in IF Truthy(options.cookie) THEN FileStates ELSE {FileErr("ENOENT")}
    /\ pc = "new"
    /\ client = NoClient
    /\ thrown = NoError
    /\ variant = "request"
    /\ now = StartTime
    /\ calls = [c \in Callers |-> Idle]

NextCtor == Construct

SpecCtor == InitCtor /\ [][NextCtor]_vars

----------------------------------------------------------------------------
(* Claims about the constructor, checked under SpecCtor *)

\* The configuration names a cookie file and gives an explicit username and password.
CookieAndExplicit ==
    /\ Truthy(options.cookie)
    /\ options.username # Undefined
    /\ options.password # Undefined

\* C1: when the options hold both a cookie path and an explicit username and
\* password and construction succeeds, the client's username and password
\* are the pair read from the cookie file, whatever the explicit pair is.
C1_CookiePrecedence ==
    (pc = "ready" /\ CookieAndExplicit) =>
        LET read == handleCookie(options.cookie, fs)
        IN  /\ ~read.threw
            /\ client.username = read.value.items[1]
            /\ client.password = read.value.items[2]

\* C1's case: a client built from a cookie file although a usable explicit
\* pair, different from the cookie's, was given.
C1_Witness ==
    /\ pc = "ready"
    /\ CookieAndExplicit
    /\ Truthy(options.username) /\ Truthy(options.password)
    /\ client.username # options.username
    /\ client.password # options.password

\* The pair that cookie/explicit resolution yields is known and its username
\* or password is empty or absent.
ResolvedIncomplete ==
    LET read == handleCookie(options.cookie, fs)
        username == IF Truthy(options.cookie) THEN read.value.items[1] ELSE options.username
        password == IF Truthy(options.cookie) THEN read.value.items[2] ELSE options.password
    IN  /\ Truthy(options.cookie) => ~read.threw
        /\ ~Truthy(username) \/ ~Truthy(password)

\* C2 as stated: every configuration whose resolved username or password is
\* empty or absent makes construction fail with the authentication error,
\* and no client exists.
C2_Original ==
    (pc # "new" /\ ResolvedIncomplete) =>
        pc = "failed" /\ client = NoClient /\ thrown = AuthError

\* C2 as amended: such a configuration makes construction fail and no client
\* exists; the error is the authentication error when the network name
\* passes validateNetwork, and the invalid-network error, thrown first,
\* when it does not.
C2_Amended ==
    (pc # "new" /\ ResolvedIncomplete) =>
        /\ pc = "failed"
        /\ client = NoClient
        /\ thrown = IF validateNetwork(options.network).threw
                    THEN Error("Invalid network name ", options.network)
                    ELSE AuthError

\* C2's case: construction with neither a cookie nor an explicit pair failed
\* with the authentication error.
C2_Witness ==
    /\ pc = "failed"
    /\ ResolvedIncomplete
    /\ thrown = AuthError
    /\ ~Truthy(options.cookie)
    /\ options.username = Undefined
    /\ options.password = Undefined

\* The network option is a name that is not in the networks table.
UnknownNetwork ==
    /\ options.network.type = "string"
    /\ options.network.chars # <<>>
    /\ options.network.chars \notin NetworkNames

\* C3: with a known network name and no explicit port the client's port is
\* the table's value (mainnet's when the network is unset); an explicit
\* port overrides it; a network name that is not in the table makes
\* construction fail.
C3_EndpointResolution ==
    /\ (pc = "ready" /\ ~Truthy(options.port) /\ ~Truthy(options.network)) =>
            client.port = Num(8332)
    /\ (pc = "ready" /\ ~Truthy(options.port) /\ Truthy(options.network)
            /\ options.network.chars \in NetworkNames) =>
            client.port = Num(networks[options.network.chars])
    /\ (pc = "ready" /\ Truthy(options.port)) => client.port = options.port
    /\ (pc # "new" /\ UnknownNetwork) => pc = "failed" /\ client = NoClient

Colons(text) == {i \in 1..Len(text) : text[i] = ":"}
FirstColon(text) == CHOOSE i \in Colons(text) : \A j \in Colons(text) : i <= j
BeforeFirstColon(text) == Trim(SubSeq(text, 1, FirstColon(text) - 1))
AfterFirstColon(text) == Trim(SubSeq(text, FirstColon(text) + 1, Len(text)))

\* The constructor got as far as reading the cookie file, and read a text.
CookieRead ==
    /\ pc # "new"
    /\ ~validateNetwork(options.network).threw
    /\ Truthy(options.cookie)
    /\ fs.status = "ok"

\* C10 as stated: a text with a colon and non-empty trimmed text on both
\* sides of its first colon resolves to (text before the first colon, text
\* after it), trimmed; any other text makes construction fail.
C10_Original ==
    CookieRead =>
        IF /\ Colons(fs.text) # {}
           /\ BeforeFirstColon(fs.text) # <<>>
           /\ AfterFirstColon(fs.text) # <<>>
        THEN /\ pc = "ready"
             /\ client.username = Str(BeforeFirstColon(fs.text))
             /\ client.password = Str(AfterFirstColon(fs.text))
        ELSE pc = "failed"

\* C10 as amended: a text with exactly one colon and non-empty trimmed text
\* on both sides of it resolves to (text before the colon, text after it),
\* trimmed; a text with no colon, with more than one colon, or with an
\* empty trimmed field makes construction fail.
C10_Amended ==
    CookieRead =>
        IF /\ Cardinality(Colons(fs.text)) = 1
           /\ BeforeFirstColon(fs.text) # <<>>
           /\ AfterFirstColon(fs.text) # <<>>
        THEN /\ pc = "ready"
             /\ client.username = Str(BeforeFirstColon(fs.text))
             /\ client.password = Str(AfterFirstColon(fs.text))
        ELSE pc = "failed"

\* C10's case: the cookie file "u:p\n" resolved to username "u", password "p".
C10_Witness ==
    /\ pc = "ready"
    /\ Truthy(options.cookie)
    /\ fs = FileOk(<<"u", ":", "p", "\n">>)
    /\ client.username = Str(<<"u">>)
    /\ client.password = Str(<<"p">>)

----------------------------------------------------------------------------
(* Claims about the calls, checked under Spec *)

\* Caller c's call of the given kind is over and got a response with status 200
\* whose body is a JSON text.
Answered(c, kind) ==
    /\ calls[c].pc = "done"
    /\ calls[c].kind = kind
    /\ calls[c].response # NoResponse
    /\ calls[c].response.status = 200
    /\ calls[c].response.body.type = "jsontext"

\* The document a response carries.
DataOf(c) == calls[c].response.body.data

\* The two envelope shapes, as the detection rule words them.
Is20Envelope(d) == d.type = "object" /\ d.jsonrpc = Str(S_2_0)
IsLegacyEnvelope(d) ==
    d.type = "object" /\ d.id # Absent /\ d.result # Absent /\ d.error # Absent

\* C4: a single call answered with status 200 and an envelope, legacy or 2.0,
\* that carries an error object throws the protocol error made of the
\* remote code and the remote message, and returns no result.
C4_ProtocolError ==
    \A c \in Callers :
        (/\ Answered(c, "single")
         /\ Is20Envelope(DataOf(c)) \/ IsLegacyEnvelope(DataOf(c))
         /\ DataOf(c).error.type = "object") =>
            /\ calls[c].outcome.threw
            /\ calls[c].outcome.error =
                   Error("Code: , ", Arr(<<DataOf(c).error.code, DataOf(c).error.message>>))

\* C4's case: a 2.0 envelope with error {code: -8, message: "bad"} was
\* answered and the call threw "Code: -8, bad".
C4_Witness ==
    \E c \in Callers :
        /\ Answered(c, "single")
        /\ DataOf(c) = [EmptyObject EXCEPT !.jsonrpc = Str(S_2_0), !.id = Str(<<"x">>),
                                           !.error = ErrorObject]
        /\ calls[c].outcome = Throw(ProtocolError(Num(-8), Str(<<"b", "a", "d">>)))

\* C5: a single call answered with status 200 and a legacy success envelope
\* {id, result: r, error: null} or a 2.0 success envelope
\* {jsonrpc: "2.0", id, result: r} returns r.
C5_SuccessRoundTrip ==
    \A c \in Callers :
        (/\ Answered(c, "single")
         /\ DataOf(c).type = "object"
         /\ DataOf(c).id # Absent
         /\ DataOf(c).result # Absent
         /\ \/ DataOf(c).jsonrpc = Absent /\ DataOf(c).error = Null
            \/ DataOf(c).jsonrpc = Str(S_2_0) /\ DataOf(c).error = Absent) =>
            calls[c].outcome = Return(DataOf(c).result)

\* C5's case: {"jsonrpc": "2.0", "id": "x", "result": 800000} was answered
\* and the call returned 800000.
C5_Witness ==
    \E c \in Callers :
        /\ Answered(c, "single")
        /\ DataOf(c) = [EmptyObject EXCEPT !.jsonrpc = Str(S_2_0), !.id = Str(<<"x">>),
                                           !.result = Num(800000)]
        /\ calls[c].outcome = Return(Num(800000))

\* C6: a single or batch call answered with status 401 throws the
\* "Invalid credentials" error, whatever the body and the content type, and
\* no other non-success status throws that error.
C6_Unauthorized ==
    \A c \in Callers :
        (calls[c].pc = "done" /\ calls[c].response # NoResponse) =>
            /\ calls[c].response.status = 401 =>
                   calls[c].outcome = Throw(InvalidCredentials)
            /\ calls[c].response.status \notin {200, 401} =>
                   calls[c].outcome # Throw(InvalidCredentials)

\* A batch answer's elements each have one of the two shapes.
EachElementConforms(d) ==
    /\ d.type = "array"
    /\ \A i \in 1..Len(d.items) :
           Is20Envelope(d.items[i]) \/ IsLegacyEnvelope(d.items[i])

\* A batch answer's elements all have the 2.0 shape, or all have the legacy shape.
AllElementsOneShape(d) ==
    /\ d.type = "array"
    /\ \/ \A i \in 1..Len(d.items) : Is20Envelope(d.items[i])
       \/ \A i \in 1..Len(d.items) : IsLegacyEnvelope(d.items[i])

\* C7 as stated: a batch call answered with status 200 returns the answered
\* array unchanged when each element has the legacy or the 2.0 shape,
\* and throws the invalid-response error otherwise.
C7_Original ==
    \A c \in Callers :
        Answered(c, "batch") =>
            calls[c].outcome =
                IF EachElementConforms(DataOf(c))
                THEN Return(DataOf(c))
                ELSE Throw(Error("Received invalid RPC response: ", JsonText(DataOf(c))))

\* C7 as amended: a batch call answered with status 200 returns the answered
\* array unchanged when all its elements have the 2.0 shape or all have
\* the legacy shape, and throws the invalid-response error otherwise, so
\* also for an array that mixes 2.0-only and legacy-only elements.
C7_Amended ==
    \A c \in Callers :
        Answered(c, "batch") =>
            calls[c].outcome =
                IF AllElementsOneShape(DataOf(c))
                THEN Return(DataOf(c))
                ELSE Throw(Error("Received invalid RPC response: ", JsonText(DataOf(c))))

\* C7's case: an array of two different elements, both of the 2.0 shape and
\* one of them of the legacy shape too, was returned as answered.
C7_Witness ==
    \E c \in Callers :
        /\ Answered(c, "batch")
        /\ DataOf(c).type = "array"
        /\ Len(DataOf(c).items) = 2
        /\ DataOf(c).items[1] # DataOf(c).items[2]
        /\ IsLegacyEnvelope(DataOf(c).items[1])
        /\ ~IsLegacyEnvelope(DataOf(c).items[2])
        /\ calls[c].outcome = Return(DataOf(c))

\* C8: the body of a batch of N requests is an array of N envelopes in the
\* order given; envelope i carries the id its request gives, whatever string
\* or number that is, and `{timestamp}-{i}` when the request gives none.
C8_BatchIds ==
    \A c \in Callers :
        (calls[c].pc = "awaiting" /\ calls[c].kind = "batch") =>
            LET given == calls[c].args.items
                sent == calls[c].request.body.data
            IN  /\ sent.type = "array"
                /\ Len(sent.items) = Len(given)
                /\ \A i \in 1..Len(given) :
                       /\ sent.items[i].method = given[i].method
                       /\ sent.items[i].params = given[i].params
                       /\ IF given[i].id # Absent
                          THEN sent.items[i].id = given[i].id
                          ELSE \E t \in StartTime..now :
                                   sent.items[i].id = Str(Digits(t) \o <<"-">> \o Digits(i - 1))

\* C9: a single call answered with status 200 and a JSON document that is
\* neither a 2.0 envelope nor a legacy envelope throws the invalid-response
\* error carrying the serialised document.
C9_MalformedResponse ==
    \A c \in Callers :
        (/\ Answered(c, "single")
         /\ ~Is20Envelope(DataOf(c))
         /\ ~IsLegacyEnvelope(DataOf(c))) =>
            calls[c].outcome =
                Throw(Error("Received invalid RPC response: ", JsonText(DataOf(c))))

\* C9's case: {"id": "x", "result": 800000}, which has no error key, was
\* answered and the call threw the invalid-response error.
C9_Witness ==
    \E c \in Callers :
        /\ Answered(c, "single")
        /\ DataOf(c) = [EmptyObject EXCEPT !.id = Str(<<"x">>), !.result = Num(800000)]
        /\ calls[c].outcome.threw
        /\ calls[c].outcome.error.what = "Received invalid RPC response: "

----------------------------------------------------------------------------
(* Concurrent calls on one client *)

\* Logical callers sharing the client: each awaits its own call, and the
\* event loop interleaves their steps in any order.
ConcurrentCallers == {1, 2}

\* What the server answers in these runs: one success per kind of call.
ConcurrentSingleResponse ==
    [status |-> 200, contentType |-> Str(S_appjson),
     body |-> JsonText([EmptyObject EXCEPT !.jsonrpc = Str(S_2_0), !.id = Str(<<"x">>),
                                           !.result = Num(800000)])]

ConcurrentBatchResponse ==
    [status |-> 200, contentType |-> Str(S_appjson),
     body |-> JsonText(Arr(<<[EmptyObject EXCEPT !.jsonrpc = Str(S_2_0), !.id = Str(<<"x">>),
                                                 !.result = Num(800000)]>>))]

\* After construction: a client exists and none of the callers has called.
InitConcurrent ==
    /\ options = CallClientOptions
    /\ fs = FileErr("ENOENT")
    /\ pc = "ready"
    /\ client = NewRPCClient(options, fs).value
    /\ thrown = NoError
    /\ variant \in Variants
    /\ now = StartTime
    /\ calls = [c \in ConcurrentCallers |-> Idle]

NextConcurrent ==
    \/ Tick
    \/ \E c \in ConcurrentCallers, f \in FacadeCalls :
            MakeRequestSend(c, f.method, f.params, Undefined, [timeout |-> Undefined])
    \/ \E c \in ConcurrentCallers : MakeRequestReceive(c, ConcurrentSingleResponse)
    \/ \E c \in ConcurrentCallers, q \in BatchRequests :
            BatchSend(c, q, [timeout |-> Undefined])
    \/ \E c \in ConcurrentCallers : BatchReceive(c, ConcurrentBatchResponse)
    \/ \E c \in ConcurrentCallers : TransportFail(c)

SpecConcurrent == InitConcurrent /\ [][NextConcurrent]_vars

----------------------------------------------------------------------------
(* Claims about concurrent calls, checked under SpecConcurrent *)

\* Caller c has a call of the given kind in flight.
InFlight(c, kind) == calls[c].pc = "awaiting" /\ calls[c].kind = kind

\* The envelope, or the array of envelopes, caller c sent.
SentBy(c) == calls[c].request.body.data

\* No two single calls in flight together carry the same id.
SingleIdsDistinct ==
    \A c1, c2 \in DOMAIN calls :
        (c1 # c2 /\ InFlight(c1, "single") /\ InFlight(c2, "single")) =>
            SentBy(c1).id # SentBy(c2).id

\* In a batch in flight whose requests give no id, the ids are pairwise distinct.
BatchIdsDistinct ==
    \A c \in DOMAIN calls :
        (/\ InFlight(c, "batch")
         /\ \A i \in 1..Len(calls[c].args.items) : calls[c].args.items[i].id = Absent) =>
            \A i, j \in 1..Len(SentBy(c).items) :
                i # j => SentBy(c).items[i].id # SentBy(c).items[j].id

\* C11: correlation ids are unique per call: single calls in flight together
\* on one client, also when started in the same millisecond, carry different
\* ids, and the ids generated within one batch are pairwise distinct.
C11_UniqueIds == SingleIdsDistinct /\ BatchIdsDistinct

====
